---- MODULE Spec2Model ----
(***************************************************************************)
(* DrainSentinel ESP32-S3 firmware (src/firmware_esp32s3.cpp): the rolling *)
(* water-level window, the multi-rate scheduler loop(), the three          *)
(* classifier invocations, fuse_and_alert() and send_alert().              *)
(*                                                                         *)
(* Numbers.  A C float is modelled in fixed point: the integer v stands    *)
(* for v / FP (thousandths).  All inputs are chosen so that every product  *)
(* and quotient the code computes is exact in thousandths.  NaN is a       *)
(* separate value with IEEE semantics: every comparison with NaN is false  *)
(* and arithmetic on NaN gives NaN.                                        *)
(* unsigned long (the millisecond clock and the three last-fired stamps)   *)
(* is 32 bits wide; a value is the pair <<hi, lo>> of its 16-bit halves,   *)
(* so that wrap-around arithmetic stays inside the model checker's ints.   *)
(***************************************************************************)
EXTENDS Integers, Sequences, FiniteSets, TLC

VARIABLES
    millis,              \* the value millis() returns at the next loop() entry
    last_camera_time,    \* line 64
    last_sensor_time,    \* line 65
    last_env_time,       \* line 66
    water_level_buffer,  \* line 69, indexed 0..59
    buffer_index,        \* line 70
    current_env_data,    \* lines 73-79
    inference_results,   \* lines 82-89
    response,            \* what server.handleClient() sent in the last loop() call
    obs,                 \* what the last loop() call did (inputs read, order, outputs)
    timing,              \* per activity: firings so far, last gap, tick before it
    nticks,              \* loop() calls so far
    nslow,               \* loop() calls so far that took longer than delay(100)
    recorded,            \* window specification: every value recorded so far
    signal,              \* window specification: the last get_data request and its output
    fuse_in,             \* fusion specification: the classifier outputs fed to fuse_and_alert
    scan,                \* scan specification: the result the temporal model returned
    pc                   \* where loop() stands: "serve" before server.handleClient(), "work" after it

vars == <<millis, last_camera_time, last_sensor_time, last_env_time,
          water_level_buffer, buffer_index, current_env_data, inference_results,
          response, obs, timing, nticks, nslow, recorded, signal, fuse_in,
          scan, pc>>

----------------------------------------------------------------------------
(* Configuration, lines 49-53 and 69.                                      *)

FP == 1000
NaN == -999999999
U16 == 65536

CAMERA_INTERVAL == 5000
SENSOR_INTERVAL == 1000
ENV_INTERVAL == 60000
ALERT_THRESHOLD_HIGH == (7 * FP) \div 10
ALERT_THRESHOLD_MEDIUM == (5 * FP) \div 10
WINDOW == 60
LOOP_DELAY == 100
SETUP_DELAY == 1000
WIFI_RETRY_DELAY == 500
PULSE_TIMEOUT == 30000

----------------------------------------------------------------------------
(* float helpers                                                           *)

isnan(x) == x = NaN
FLess(a, b) == ~isnan(a) /\ ~isnan(b) /\ a < b
FGreater(a, b) == ~isnan(a) /\ ~isnan(b) /\ a > b
\* Arduino's constrain macro: ((amt)<(low)?(low):((amt)>(high)?(high):(amt)))
constrain(amt, low, high) ==
    IF FLess(amt, low) THEN low ELSE IF FGreater(amt, high) THEN high ELSE amt
\* Arduino's long map(x, in_min, in_max, out_min, out_max), integer arithmetic
map(x, in_min, in_max, out_min, out_max) ==
    ((x - in_min) * (out_max - out_min)) \div (in_max - in_min) + out_min

----------------------------------------------------------------------------
(* unsigned long arithmetic, modulo 2^32                                   *)

u32(n) == <<n \div U16, n % U16>>
u32_add(a, n) ==
    LET lo == a[2] + (n % U16)
        hi == a[1] + (n \div U16) + (lo \div U16)
    IN  <<hi % U16, lo % U16>>
u32_sub(a, b) ==
    LET lo == a[2] - b[2]
        hi == a[1] - b[1] - (IF lo < 0 THEN 1 ELSE 0)
    IN  <<hi % U16, lo % U16>>
\* a >= n for an unsigned a and a constant 0 <= n < 2^31
u32_ge(a, n) == a[1] > n \div U16 \/ (a[1] = n \div U16 /\ a[2] >= n % U16)
\* the number a stands for, when it is below 2^31
u32_val(a) == a[1] * U16 + a[2]

----------------------------------------------------------------------------
(* Sensor functions, lines 125-197.  Each takes the globals it writes.     *)

\* lines 125-139; temp and humidity are what the DHT driver returned
read_dht22(env, temp, humidity) ==
    IF isnan(temp) \/ isnan(humidity)
    THEN env
    ELSE [env EXCEPT !.temperature = constrain(temp, 15 * FP, 40 * FP),
                     !.humidity = constrain(humidity, 0, 100 * FP)]

\* lines 144-149; pascal is what bmp280.readPressure() returned (Pa)
read_bmp280(env, pascal) ==
    LET pressure == IF isnan(pascal) THEN NaN ELSE pascal \div 100
    IN  [env EXCEPT !.pressure = constrain(pressure, 990 * FP, 1040 * FP)]

\* lines 154-172; duration is what pulseIn returned (microseconds, 0 on timeout)
read_ultrasonic(duration) ==
    LET distance == (duration * 343) \div 20      \* duration * 0.0343 / 2, in cm/FP
    IN  constrain(distance, 0, 100 * FP)

\* lines 177-184; rain_value is what analogRead returned (0..4095)
read_rain_sensor(env, rain_value) ==
    [env EXCEPT !.rainfall = map(rain_value, 0, 4095, 0, 100) * FP]

\* A mutant of update_water_level_buffer: the cursor advances before the store.
update_water_level_buffer_store_after(g, water_level) ==
    [g EXCEPT !.current_env_data.water_level = constrain(water_level, 0, 100 * FP),
              !.water_level_buffer[(g.buffer_index + 1) % WINDOW] = water_level,
              !.buffer_index = (g.buffer_index + 1) % WINDOW]

\* lines 189-197; g holds current_env_data, water_level_buffer, buffer_index
update_water_level_buffer(g, water_level) ==
    [g EXCEPT !.current_env_data.water_level = constrain(water_level, 0, 100 * FP),
              !.water_level_buffer[g.buffer_index] = water_level,
              !.buffer_index = (g.buffer_index + 1) % WINDOW]

----------------------------------------------------------------------------
(* The signal callbacks handed to run_classifier.                          *)

\* A mutant of sensor_get_data: the readout starts at slot 0, not at the cursor.
sensor_get_data_unrotated(buf, idx, offset, length) ==
    [i \in 1..length |-> (buf[(i - 1) % WINDOW]) \div 100]

\* lines 271-277: out_ptr[i] = water_level_buffer[(buffer_index + i) % 60] / 100.0
\* for i < length; the offset parameter is not used.
sensor_get_data(buf, idx, offset, length) ==
    [i \in 1..length |-> (buf[(idx + (i - 1)) % WINDOW]) \div 100]

\* lines 318-326: the five normalized environmental features
env_get_data(env) ==
    << IF isnan(env.temperature) THEN NaN ELSE (env.temperature - 15 * FP) \div 25,
       IF isnan(env.humidity) THEN NaN ELSE env.humidity \div 100,
       IF isnan(env.pressure) THEN NaN ELSE FP - ((env.pressure - 990 * FP) \div 50),
       IF isnan(env.rainfall) THEN NaN ELSE env.rainfall \div 100,
       IF isnan(env.water_level) THEN NaN ELSE env.water_level \div 100 >>

----------------------------------------------------------------------------
(* Edge Impulse inference, lines 227-348.  A classifier call returns an    *)
(* error flag and, on success, result.classification: a sequence of        *)
(* [label, value] entries.  The classifier itself is external.             *)

\* lines 244-259: 0.0 on error, else the value of the first "blockage" entry
run_visual_inference(result) ==
    IF result.err THEN 0
    ELSE LET hits == {ix \in 1..Len(result.classification) :
                         result.classification[ix].label = "blockage"}
         IN  IF hits = {} THEN 0
             ELSE result.classification[CHOOSE ix \in hits : \A j \in hits : ix <= j].value

\* lines 289-303: the scan over result.classification from entry ix on
RECURSIVE sensor_scan(_, _, _, _)
sensor_scan(classification, ix, water_level_class, max_score) ==
    IF ix > Len(classification) THEN water_level_class
    ELSE LET e == classification[ix]
         IN  IF e.value > max_score
             THEN sensor_scan(classification, ix + 1,
                              IF e.label = "normal" THEN 0
                              ELSE IF e.label = "elevated" THEN 1
                              ELSE IF e.label = "critical" THEN 2
                              ELSE water_level_class,
                              e.value)
             ELSE sensor_scan(classification, ix + 1, water_level_class, max_score)

\* A mutant of run_sensor_inference: a failed call returns an error code.
run_sensor_inference_error_code(result) ==
    IF result.err THEN -1 ELSE sensor_scan(result.classification, 1, 0, 0)

\* lines 283-306: 0 on error, else the class found by the scan
run_sensor_inference(result) ==
    IF result.err THEN 0 ELSE sensor_scan(result.classification, 1, 0, 0)

\* lines 332-347: 0.0 on error, else the value of the first "high_risk" entry
run_environmental_inference(result) ==
    IF result.err THEN 0
    ELSE LET hits == {ix \in 1..Len(result.classification) :
                         result.classification[ix].label = "high_risk"}
         IN  IF hits = {} THEN 0
             ELSE result.classification[CHOOSE ix \in hits : \A j \in hits : ix <= j].value

----------------------------------------------------------------------------
(* Fusion and decision logic, lines 357-390.                               *)

MSG_HIGH == "CRITICAL: Drainage blockage detected with high water level!"
MSG_MEDIUM == "WARNING: Potential blockage or elevated water level detected."
MSG_FLOOD == "WARNING: Flood risk predicted based on weather patterns."
MSG_LOW == "OK: Drainage system operating normally."

\* A mutant of alert_score_of: the class is weighted as it is, not divided by 2.
alert_score_of_raw_class(blockage_score, water_level_class, flood_risk) ==
    (40 * blockage_score + 30 * (water_level_class * FP) + 30 * flood_risk) \div 100

\* lines 361-365: 0.40 * blockage + 0.30 * (class / 2.0) + 0.30 * flood_risk
alert_score_of(blockage_score, water_level_class, flood_risk) ==
    (40 * blockage_score + 30 * ((water_level_class * FP) \div 2) + 30 * flood_risk) \div 100

\* A mutant of fuse_and_alert: the two MEDIUM tiers share one message.
fuse_and_alert_one_message(r) ==
    LET score == alert_score_of(r.blockage_score, r.water_level_class, r.flood_risk)
        s == [r EXCEPT !.alert_score = score]
    IN  IF score > ALERT_THRESHOLD_HIGH /\ r.water_level_class = 2
        THEN [s EXCEPT !.alert_level = "HIGH", !.alert_message = MSG_HIGH]
        ELSE IF score > ALERT_THRESHOLD_MEDIUM \/ r.water_level_class = 1
        THEN [s EXCEPT !.alert_level = "MEDIUM", !.alert_message = MSG_MEDIUM]
        ELSE IF r.flood_risk > (7 * FP) \div 10
        THEN [s EXCEPT !.alert_level = "MEDIUM", !.alert_message = MSG_MEDIUM]
        ELSE [s EXCEPT !.alert_level = "LOW", !.alert_message = MSG_LOW]

\* A mutant of fuse_and_alert: HIGH does not require the critical class.
fuse_and_alert_high_any_class(r) ==
    LET score == alert_score_of(r.blockage_score, r.water_level_class, r.flood_risk)
        s == [r EXCEPT !.alert_score = score]
    IN  IF score > ALERT_THRESHOLD_HIGH
        THEN [s EXCEPT !.alert_level = "HIGH", !.alert_message = MSG_HIGH]
        ELSE IF score > ALERT_THRESHOLD_MEDIUM \/ r.water_level_class = 1
        THEN [s EXCEPT !.alert_level = "MEDIUM", !.alert_message = MSG_MEDIUM]
        ELSE IF r.flood_risk > (7 * FP) \div 10
        THEN [s EXCEPT !.alert_level = "MEDIUM", !.alert_message = MSG_FLOOD]
        ELSE [s EXCEPT !.alert_level = "LOW", !.alert_message = MSG_LOW]

\* A mutant of fuse_and_alert: the elevated class has a clause and a message
\* of its own.
fuse_and_alert_class_message(r) ==
    LET score == alert_score_of(r.blockage_score, r.water_level_class, r.flood_risk)
        s == [r EXCEPT !.alert_score = score]
    IN  IF score > ALERT_THRESHOLD_HIGH /\ r.water_level_class = 2
        THEN [s EXCEPT !.alert_level = "HIGH", !.alert_message = MSG_HIGH]
        ELSE IF score > ALERT_THRESHOLD_MEDIUM
        THEN [s EXCEPT !.alert_level = "MEDIUM", !.alert_message = MSG_MEDIUM]
        ELSE IF r.water_level_class = 1
        THEN [s EXCEPT !.alert_level = "MEDIUM",
                       !.alert_message = "WARNING: Elevated water level detected."]
        ELSE IF r.flood_risk > (7 * FP) \div 10
        THEN [s EXCEPT !.alert_level = "MEDIUM", !.alert_message = MSG_FLOOD]
        ELSE [s EXCEPT !.alert_level = "LOW", !.alert_message = MSG_LOW]

\* lines 357-390; r is inference_results
fuse_and_alert(r) ==
    LET score == alert_score_of(r.blockage_score, r.water_level_class, r.flood_risk)
        s == [r EXCEPT !.alert_score = score]
    IN  IF score > ALERT_THRESHOLD_HIGH /\ r.water_level_class = 2
        THEN [s EXCEPT !.alert_level = "HIGH", !.alert_message = MSG_HIGH]
        ELSE IF score > ALERT_THRESHOLD_MEDIUM \/ r.water_level_class = 1
        THEN [s EXCEPT !.alert_level = "MEDIUM", !.alert_message = MSG_MEDIUM]
        ELSE IF r.flood_risk > (7 * FP) \div 10
        THEN [s EXCEPT !.alert_level = "MEDIUM", !.alert_message = MSG_FLOOD]
        ELSE [s EXCEPT !.alert_level = "LOW", !.alert_message = MSG_LOW]

\* A mutant of send_alert: the WiFi status is not tested.
send_alert_no_wifi_test(r, env, wifi_connected, now) ==
    << [timestamp |-> now,
        alert_level |-> r.alert_level,
        alert_message |-> r.alert_message,
        blockage_score |-> r.blockage_score,
        water_level_class |-> r.water_level_class,
        flood_risk |-> r.flood_risk,
        temperature |-> env.temperature,
        humidity |-> env.humidity,
        water_level |-> env.water_level] >>

\* lines 395-421: the payloads pushed by one call (none without WiFi)
send_alert(r, env, wifi_connected, now) ==
    IF ~wifi_connected THEN << >>
    ELSE << [timestamp |-> now,
             alert_level |-> r.alert_level,
             alert_message |-> r.alert_message,
             blockage_score |-> r.blockage_score,
             water_level_class |-> r.water_level_class,
             flood_risk |-> r.flood_risk,
             temperature |-> env.temperature,
             humidity |-> env.humidity,
             water_level |-> env.water_level] >>

----------------------------------------------------------------------------
(* Web server handlers, lines 430-461.  g holds the globals and response,   *)
(* the document server.send() delivers.                                    *)

\* lines 430-445; uptime is what millis() returns
handle_status(g, uptime) ==
    [g EXCEPT !.response =
        [status |-> "running",
         uptime_ms |-> uptime,
         alert_level |-> g.inference_results.alert_level,
         blockage_score |-> g.inference_results.blockage_score,
         water_level |-> g.current_env_data.water_level,
         temperature |-> g.current_env_data.temperature,
         humidity |-> g.current_env_data.humidity]]

\* A mutant of handle_alerts: the alert is acknowledged (reset) once delivered.
handle_alerts_acknowledging(g) ==
    [g EXCEPT !.response =
        [alert_level |-> g.inference_results.alert_level,
         alert_message |-> g.inference_results.alert_message,
         alert_score |-> g.inference_results.alert_score],
              !.inference_results.alert_level = "LOW",
              !.inference_results.alert_message = ""]

\* lines 450-461
handle_alerts(g) ==
    [g EXCEPT !.response =
        [alert_level |-> g.inference_results.alert_level,
         alert_message |-> g.inference_results.alert_message,
         alert_score |-> g.inference_results.alert_score]]

----------------------------------------------------------------------------
(* The state after construction: the globals' initializers (lines 64-89;   *)
(* water_level_buffer is a zero-initialized global) and setup().           *)

InitGlobals ==
    /\ last_camera_time = u32(0)
    /\ last_sensor_time = u32(0)
    /\ last_env_time = u32(0)
    /\ water_level_buffer = [i \in 0..(WINDOW - 1) |-> 0]
    /\ buffer_index = 0
    /\ current_env_data = [temperature |-> 0, humidity |-> 0, pressure |-> 0,
                           rainfall |-> 0, water_level |-> 0]
    /\ inference_results = [blockage_score |-> 0, water_level_class |-> 0,
                            flood_risk |-> 0, alert_score |-> 0,
                            alert_level |-> "LOW", alert_message |-> ""]

NoResponse == [status |-> "none"]
NoObs ==
    [start |-> u32(0), fired |-> << >>, reads |-> << >>, sample |-> << >>,
     window |-> << >>, features |-> << >>, results |-> << >>, wifi |-> << >>,
     pushed |-> << >>]
NoTiming == [n |-> 0, gap |-> 0, before |-> 0]
NoSignal == [offset |-> 0, length |-> 0, out |-> << >>]

\* lines 481-510: delay(1000), then up to 20 waits of 500 ms for WiFi
setup(attempts) == u32(SETUP_DELAY + attempts * WIFI_RETRY_DELAY)

InitObservers ==
    /\ response = NoResponse
    /\ obs = NoObs
    /\ timing = [env |-> NoTiming, sensor |-> NoTiming, camera |-> NoTiming]
    /\ nticks = 0
    /\ nslow = 0
    /\ recorded = << >>
    /\ signal = NoSignal
    /\ fuse_in = << >>
    /\ scan = << >>
    /\ pc = "serve"

----------------------------------------------------------------------------
(* Window specification: update_water_level_buffer applied to ranging      *)
(* samples, and the temporal model's data requests.  The samples are the   *)
(* nominal echo but for one burst of at most MaxBurst consecutive samples  *)
(* that time out or are out of range.                                      *)

MaxRecords == 62
MaxBurst == 2
NominalEcho == 2 * 1000
EchoDurations == {0, NominalEcho, 20000}
SignalRequests == {<<0, WINDOW>>, <<0, 30>>, <<30, 30>>}

Spikes(rec) == Cardinality({i \in 1..Len(rec) : rec[i] # read_ultrasonic(NominalEcho)})

\* whether sample v may follow the samples rec
InBurst(rec, v) ==
    IF v = read_ultrasonic(NominalEcho) \/ Spikes(rec) = 0 THEN TRUE
    ELSE Spikes(rec) < MaxBurst /\ rec[Len(rec)] # read_ultrasonic(NominalEcho)

InitWindow ==
    /\ InitGlobals
    /\ InitObservers
    /\ millis = setup(0)

\* one ranging sample stored, lines 531-532
Record ==
    /\ Len(recorded) < MaxRecords
    /\ \E duration \in EchoDurations :
          LET water_level == read_ultrasonic(duration)
              g == update_water_level_buffer(
                       [current_env_data |-> current_env_data,
                        water_level_buffer |-> water_level_buffer,
                        buffer_index |-> buffer_index], water_level)
          IN  /\ InBurst(recorded, water_level)
              /\ recorded' = Append(recorded, water_level)
              /\ current_env_data' = g.current_env_data
              /\ water_level_buffer' = g.water_level_buffer
              /\ buffer_index' = g.buffer_index
    /\ signal' = NoSignal
    /\ UNCHANGED <<millis, last_camera_time, last_sensor_time, last_env_time,
                   inference_results, response, obs, timing, nticks, nslow, fuse_in,
                   scan, pc>>

\* one signal.get_data(offset, length, out_ptr) call, lines 271-277
ReadSignal ==
    /\ \E req \in SignalRequests :
          signal' = [offset |-> req[1], length |-> req[2],
                     out |-> sensor_get_data(water_level_buffer, buffer_index,
                                             req[1], req[2])]
    /\ UNCHANGED <<millis, last_camera_time, last_sensor_time, last_env_time,
                   water_level_buffer, buffer_index, current_env_data,
                   inference_results, response, obs, timing, nticks, nslow,
                   recorded, fuse_in, scan, pc>>

NextWindow == Record \/ ReadSignal
SpecWindow == InitWindow /\ [][NextWindow]_vars

\* the recorded values behind WINDOW zeros: what the window has held, oldest first
Padded == [i \in 1..WINDOW |-> 0] \o recorded
FullReadout == signal.offset = 0 /\ signal.length = WINDOW

\* C1 (as amended): a full readout has exactly WINDOW values in [0,1]; they are
\* the last WINDOW entries of the zero pre-fill followed by the recorded values,
\* each divided by 100, oldest first.  So after WINDOW + k records the oldest k
\* are gone, and before WINDOW records the leading values are the pre-fill zeros.
C1_ReadoutIsTrailingWindow ==
    FullReadout =>
        /\ Len(signal.out) = WINDOW
        /\ \A i \in 1..WINDOW :
              /\ signal.out[i] = Padded[Len(recorded) + i] \div 100
              /\ signal.out[i] >= 0 /\ signal.out[i] <= FP

\* C1 witness: a full readout after more than WINDOW records, the evicted
\* oldest sample being one that differs from the retained ones
C1_Witness ==
    /\ FullReadout
    /\ Len(recorded) > WINDOW
    /\ recorded[1] # read_ultrasonic(NominalEcho)
    /\ \A i \in 1..WINDOW : signal.out[i] # recorded[1] \div 100

\* C1 (as claimed): every value of a full readout is a previously recorded
\* value divided by 100
C1_EveryValueWasRecorded ==
    FullReadout =>
        /\ Len(signal.out) = WINDOW
        /\ \A i \in 1..WINDOW :
              \E j \in 1..Len(recorded) : signal.out[i] = recorded[j] \div 100

\* C18 (as claimed): a request for (offset, length) with offset + length <= 60
\* returns elements offset .. offset + length - 1 of the oldest-to-newest
\* normalized sequence, so that consecutive chunks put together are the
\* sequence one full request returns.
C18_ChunkIsSliceOfReadout ==
    (signal.length > 0 /\ signal.offset + signal.length <= WINDOW) =>
        /\ Len(signal.out) = signal.length
        /\ \A i \in 1..signal.length :
              signal.out[i] = Padded[Len(recorded) + signal.offset + i] \div 100
        /\ signal.out = SubSeq(sensor_get_data(water_level_buffer, buffer_index, 0, WINDOW),
                               signal.offset + 1, signal.offset + signal.length)

\* C11: the write cursor is always in [0,60); each record(value) stores the
\* value in the slot at the cursor, leaves the other 59 slots as they were, and
\* moves the cursor to (cursor + 1) mod 60.
C11_CursorInRangeOneSlotWritten ==
    /\ [](buffer_index \in 0..(WINDOW - 1) /\ DOMAIN water_level_buffer = 0..(WINDOW - 1))
    /\ [][ Len(recorded') = Len(recorded) + 1 =>
              /\ water_level_buffer'[buffer_index] = recorded'[Len(recorded')]
              /\ \A i \in 0..(WINDOW - 1) :
                    i # buffer_index => water_level_buffer'[i] = water_level_buffer[i]
              /\ buffer_index' = (buffer_index + 1) % WINDOW ]_vars

\* C11 witness: the cursor has wrapped; the 61st record went to slot 0, over a
\* different value, and the cursor stands at 1
C11_Witness ==
    /\ Len(recorded) = WINDOW + 1
    /\ buffer_index = 1
    /\ water_level_buffer[0] = recorded[WINDOW + 1]
    /\ recorded[WINDOW + 1] # recorded[1]
    /\ water_level_buffer[1] = recorded[2]

----------------------------------------------------------------------------
(* Fusion specification: fuse_and_alert applied to every combination of    *)
(* classifier outputs, one inference cycle after another (lines 545-550).  *)

Scores == {k * (FP \div 10) : k \in 0..10}
Classes == {0, 1, 2}

InitFuse ==
    /\ InitGlobals
    /\ InitObservers
    /\ millis = setup(0)

Fuse ==
    /\ \E b \in Scores, c \in Classes, f \in Scores :
          /\ fuse_in' = [blockage_score |-> b, water_level_class |-> c, flood_risk |-> f]
          /\ inference_results' =
                fuse_and_alert([inference_results EXCEPT !.blockage_score = b,
                                                         !.water_level_class = c,
                                                         !.flood_risk = f])
    /\ UNCHANGED <<millis, last_camera_time, last_sensor_time, last_env_time,
                   water_level_buffer, buffer_index, current_env_data,
                   response, obs, timing, nticks, nslow, recorded, signal,
                   scan, pc>>

NextFuse == Fuse
SpecFuse == InitFuse /\ [][NextFuse]_vars

\* 10000 times the weighted sum 0.40 b + 0.30 (c / 2) + 0.30 f of the spec
Weighted(b, c, f) == 4 * b + 1500 * c + 3 * f
\* which clause of the priority list a combination of outputs selects
Tier(b, c, f) ==
    IF Weighted(b, c, f) > 7000 /\ c = 2 THEN "high"
    ELSE IF Weighted(b, c, f) > 5000 \/ c = 1 THEN "medium"
    ELSE IF f > 700 THEN "flood"
    ELSE "low"
TierOf(in) == Tier(in.blockage_score, in.water_level_class, in.flood_risk)
LevelOfTier(t) ==
    IF t = "high" THEN "HIGH" ELSE IF t = "low" THEN "LOW" ELSE "MEDIUM"

\* C2: after fuse_and_alert the level is the one of the first matching clause:
\* HIGH iff score > 0.7 and class 2; else MEDIUM iff score > 0.5 or class 1;
\* else MEDIUM iff flood_risk > 0.7; else LOW.
C2_LevelByPriority ==
    fuse_in # << >> =>
        /\ inference_results.alert_level = LevelOfTier(TierOf(fuse_in))
        /\ inference_results.alert_level \in {"LOW", "MEDIUM", "HIGH"}
        /\ (/\ Weighted(fuse_in.blockage_score, fuse_in.water_level_class,
                        fuse_in.flood_risk) > 7000
            /\ fuse_in.water_level_class = 2)
              => inference_results.alert_level = "HIGH"

\* C2 witness: a HIGH decision, and one taken with a flood_risk below 0.7
C2_Witness ==
    /\ fuse_in # << >>
    /\ inference_results.alert_level = "HIGH"
    /\ fuse_in.water_level_class = 2
    /\ fuse_in.flood_risk < 700

\* MEDIUM only because the class is 1, and MEDIUM by score with another class
ClassTriggered(in) ==
    /\ in # << >>
    /\ in.water_level_class = 1
    /\ Weighted(in.blockage_score, in.water_level_class, in.flood_risk) <= 5000
ScoreTriggered(in) ==
    /\ in # << >>
    /\ in.water_level_class # 1
    /\ TierOf(in) = "medium"
FloodTriggered(in) ==
    /\ in # << >>
    /\ in.water_level_class # 1
    /\ Weighted(in.blockage_score, in.water_level_class, in.flood_risk) <= 5000
    /\ in.flood_risk > 700

\* C9 (as amended): a class-triggered MEDIUM carries the same message as a
\* score-triggered MEDIUM (one clause, one template), in either order of the
\* two cycles, and that message is not the flood-risk one.
C9_ClassAndScoreShareMessage ==
    [][ /\ (ScoreTriggered(fuse_in) /\ ClassTriggered(fuse_in'))
            \/ (ClassTriggered(fuse_in) /\ ScoreTriggered(fuse_in'))
           => /\ inference_results'.alert_message = inference_results.alert_message
              /\ inference_results'.alert_level = "MEDIUM"
        /\ ClassTriggered(fuse_in')
           => /\ inference_results'.alert_level = "MEDIUM"
              /\ inference_results'.alert_message # MSG_FLOOD
              /\ inference_results'.alert_message # MSG_LOW ]_vars

\* C9 witness: a MEDIUM reached only because the class is 1
C9_Witness ==
    /\ ClassTriggered(fuse_in)
    /\ inference_results.alert_level = "MEDIUM"
    /\ inference_results.alert_score <= ALERT_THRESHOLD_MEDIUM

\* C9 (as claimed): the message of a class-triggered MEDIUM differs from the
\* message of a score-triggered MEDIUM
C9_ClassMessageDistinct ==
    [][ (ScoreTriggered(fuse_in) /\ ClassTriggered(fuse_in'))
           => inference_results'.alert_message # inference_results.alert_message ]_vars

\* C10: with score <= 0.5, class not 1 and flood_risk > 0.7 the level is MEDIUM
\* and the message is the flood-risk one, which differs from the message a
\* score- or class-triggered MEDIUM of the cycle before carried.
C10_FloodTierMessage ==
    [][ FloodTriggered(fuse_in')
           => /\ inference_results'.alert_level = "MEDIUM"
              /\ inference_results'.alert_message = MSG_FLOOD
              /\ (ScoreTriggered(fuse_in) \/ ClassTriggered(fuse_in))
                    => /\ inference_results.alert_level = "MEDIUM"
                       /\ inference_results'.alert_message
                             # inference_results.alert_message ]_vars

\* C10 witness: the third clause decides a cycle
C10_Witness ==
    /\ FloodTriggered(fuse_in)
    /\ inference_results.alert_level = "MEDIUM"
    /\ inference_results.alert_message = MSG_FLOOD
    /\ inference_results.alert_score <= ALERT_THRESHOLD_MEDIUM

LevelRank(level) == IF level = "LOW" THEN 0 ELSE IF level = "MEDIUM" THEN 1 ELSE 2

\* C20 (as claimed): with blockage_score and flood_risk fixed, a cycle with a
\* higher water_level_class than the cycle before does not end with a lower
\* level (LOW < MEDIUM < HIGH).
C20_LevelMonotoneInClass ==
    [][ (/\ fuse_in # << >>
         /\ fuse_in'.blockage_score = fuse_in.blockage_score
         /\ fuse_in'.flood_risk = fuse_in.flood_risk
         /\ fuse_in'.water_level_class > fuse_in.water_level_class)
           => LevelRank(inference_results'.alert_level)
                 >= LevelRank(inference_results.alert_level) ]_vars

\* C15: after a cycle alert_score is 0.40 blockage_score + 0.30 (class / 2) +
\* 0.30 flood_risk of the three outputs of that cycle, which are the ones
\* stored, and it lies in [0,1].
C15_ScoreIsWeightedSum ==
    fuse_in # << >> =>
        /\ inference_results.blockage_score = fuse_in.blockage_score
        /\ inference_results.water_level_class = fuse_in.water_level_class
        /\ inference_results.flood_risk = fuse_in.flood_risk
        /\ 10 * inference_results.alert_score =
              Weighted(fuse_in.blockage_score, fuse_in.water_level_class,
                       fuse_in.flood_risk)
        /\ inference_results.alert_score >= 0
        /\ inference_results.alert_score <= FP

\* C15 witness: all three outputs at their maximum, the score at 1
C15_Witness ==
    /\ fuse_in # << >>
    /\ fuse_in.blockage_score = FP
    /\ fuse_in.water_level_class = 2
    /\ fuse_in.flood_risk = FP
    /\ inference_results.alert_score = FP

----------------------------------------------------------------------------
(* loop(), lines 515-561.  g holds the globals and the record of what this *)
(* call did; in holds what the drivers, the classifiers and WiFi return.   *)

\* A mutant of Due: the comparison is strict.
DueStrict(now, last, interval) == u32_ge(u32_sub(now, last), interval + 1)

\* A mutant of Due: current_time >= last + interval, which is not the same
\* test once last + interval has wrapped around.
DueAbsolute(now, last, interval) ==
    LET at == u32_add(last, interval)
    IN  now[1] > at[1] \/ (now[1] = at[1] /\ now[2] >= at[2])

\* lines 522, 530, 537: current_time - last >= interval, in unsigned long
Due(now, last, interval) == u32_ge(u32_sub(now, last), interval)

\* lines 522-527
env_step(g, in, now) ==
    LET env == read_rain_sensor(
                   read_bmp280(
                       read_dht22(g.current_env_data, in.dht[1], in.dht[2]),
                       in.bmp),
                   in.rain)
    IN  [g EXCEPT !.current_env_data = env,
                  !.last_env_time = now,
                  !.obs.fired = Append(@, "env"),
                  !.obs.reads = << [temp |-> in.dht[1], humidity |-> in.dht[2],
                                    pascal |-> in.bmp, rain_value |-> in.rain] >>]

\* lines 530-534
sensor_step(g, in, now) ==
    LET water_level == read_ultrasonic(in.echo)
        h == update_water_level_buffer(g, water_level)
    IN  [h EXCEPT !.last_sensor_time = now,
                  !.obs.fired = Append(@, "sensor"),
                  !.obs.sample = << [duration |-> in.echo, water_level |-> water_level] >>]

\* A mutant of camera_step: fuse_and_alert runs before the three model outputs
\* of the cycle are stored.
camera_step_fuse_first(g, in, now) ==
    LET r == [fuse_and_alert(g.inference_results) EXCEPT
                 !.blockage_score = run_visual_inference(in.visual),
                 !.water_level_class = run_sensor_inference(in.sensor),
                 !.flood_risk = run_environmental_inference(in.environmental)]
        alert == r.alert_level # "LOW"
    IN  [g EXCEPT !.inference_results = r,
                  !.last_camera_time = now,
                  !.obs.fired = Append(@, "camera"),
                  !.obs.window = sensor_get_data(g.water_level_buffer, g.buffer_index,
                                                 0, WINDOW),
                  !.obs.features = env_get_data(g.current_env_data),
                  !.obs.results = << [visual |-> in.visual, sensor |-> in.sensor,
                                      environmental |-> in.environmental] >>,
                  !.obs.wifi = IF alert THEN << in.wifi >> ELSE << >>,
                  !.obs.pushed = IF alert
                                 THEN send_alert(r, g.current_env_data, in.wifi, now)
                                 ELSE << >>]

\* lines 537-558
camera_step(g, in, now) ==
    LET r == fuse_and_alert(
                 [g.inference_results EXCEPT
                     !.blockage_score = run_visual_inference(in.visual),
                     !.water_level_class = run_sensor_inference(in.sensor),
                     !.flood_risk = run_environmental_inference(in.environmental)])
        alert == r.alert_level # "LOW"
    IN  [g EXCEPT !.inference_results = r,
                  !.last_camera_time = now,
                  !.obs.fired = Append(@, "camera"),
                  !.obs.window = sensor_get_data(g.water_level_buffer, g.buffer_index,
                                                 0, WINDOW),
                  !.obs.features = env_get_data(g.current_env_data),
                  !.obs.results = << [visual |-> in.visual, sensor |-> in.sensor,
                                      environmental |-> in.environmental] >>,
                  !.obs.wifi = IF alert THEN << in.wifi >> ELSE << >>,
                  !.obs.pushed = IF alert
                                 THEN send_alert(r, g.current_env_data, in.wifi, now)
                                 ELSE << >>]

\* A mutant of loop_body: the inference cycle runs before the ranging sample.
loop_body_camera_first(g, in, now) ==
    LET g1 == IF Due(now, g.last_env_time, ENV_INTERVAL) THEN env_step(g, in, now) ELSE g
        g2 == IF Due(now, g1.last_camera_time, CAMERA_INTERVAL)
              THEN camera_step(g1, in, now) ELSE g1
        g3 == IF Due(now, g2.last_sensor_time, SENSOR_INTERVAL)
              THEN sensor_step(g2, in, now) ELSE g2
    IN  g3

\* A mutant of loop_body: the three tests form an else-if chain, so that at
\* most one activity runs in a tick.
loop_body_else_if(g, in, now) ==
    IF Due(now, g.last_env_time, ENV_INTERVAL) THEN env_step(g, in, now)
    ELSE IF Due(now, g.last_sensor_time, SENSOR_INTERVAL) THEN sensor_step(g, in, now)
    ELSE IF Due(now, g.last_camera_time, CAMERA_INTERVAL) THEN camera_step(g, in, now)
    ELSE g

\* lines 519-558: the three tests in the order the code makes them
loop_body(g, in, now) ==
    LET g1 == IF Due(now, g.last_env_time, ENV_INTERVAL) THEN env_step(g, in, now) ELSE g
        g2 == IF Due(now, g1.last_sensor_time, SENSOR_INTERVAL)
              THEN sensor_step(g1, in, now) ELSE g1
        g3 == IF Due(now, g2.last_camera_time, CAMERA_INTERVAL)
              THEN camera_step(g2, in, now) ELSE g2
    IN  g3

\* line 517: the request, if any, that server.handleClient() dispatches to
\* the handler registered for it (lines 467-468)
handleClient(g, req, now) ==
    IF req = "status" THEN handle_status(g, now)
    ELSE IF req = "alerts" THEN handle_alerts(g)
    ELSE [g EXCEPT !.response = NoResponse]

\* the firings of one activity: how many (0, 1, 2 or more), the clock time
\* between the last two, and the length of the tick before the last one
Stamp(t, fired, now, last, start) ==
    IF ~fired THEN t
    ELSE [n |-> IF t.n < 2 THEN t.n + 1 ELSE 2,
          gap |-> u32_val(u32_sub(now, last)),
          before |-> u32_val(u32_sub(now, start))]

Fired(o, activity) == \E i \in 1..Len(o.fired) : o.fired[i] = activity

\* The globals, and the record of what the current loop() call did.
Globals ==
    [current_env_data |-> current_env_data,
     water_level_buffer |-> water_level_buffer,
     buffer_index |-> buffer_index,
     inference_results |-> inference_results,
     last_env_time |-> last_env_time,
     last_sensor_time |-> last_sensor_time,
     last_camera_time |-> last_camera_time,
     response |-> response,
     obs |-> obs]

\* loop() with the inputs of environment E, from line 517 (the whole call) or
\* from line 519 on (server.handleClient() has returned); the call ends after
\* delay(100), `duration` milliseconds after it began.
LoopFrom(E, line) ==
    /\ nticks < E.max_ticks
    /\ pc = (IF line = 517 THEN "serve" ELSE "work")
    /\ pc' = "serve"
    /\ LET now == millis
           env_due == Due(now, last_env_time, ENV_INTERVAL)
           sensor_due == Due(now, last_sensor_time, SENSOR_INTERVAL)
           camera_due == Due(now, last_camera_time, CAMERA_INTERVAL)
       IN  \E req \in (IF line = 517 THEN E.requests ELSE {"none"}),
              dht \in (IF env_due THEN E.dht ELSE {<< >>}),
              bmp \in (IF env_due THEN E.bmp ELSE {0}),
              rain \in (IF env_due THEN E.rain ELSE {0}),
              echo \in (IF sensor_due THEN E.echo ELSE {0}),
              visual \in (IF camera_due THEN E.visual ELSE {<< >>}),
              sensor \in (IF camera_due THEN E.sensor ELSE {<< >>}),
              environmental \in (IF camera_due THEN E.environmental ELSE {<< >>}),
              wifi \in (IF camera_due THEN E.wifi ELSE {FALSE}),
              duration \in E.durations :
                \E served \in {IF line = 517 THEN handleClient(Globals, req, now)
                                              ELSE Globals} :
                \E g \in {loop_body(
                             [served EXCEPT !.obs = [NoObs EXCEPT !.start = now]],
                             [dht |-> dht, bmp |-> bmp, rain |-> rain, echo |-> echo,
                              visual |-> visual, sensor |-> sensor,
                              environmental |-> environmental, wifi |-> wifi],
                             now)} :
                    /\ nslow + (IF duration > LOOP_DELAY THEN 1 ELSE 0) <= E.max_slow
                    /\ response' = g.response
                    /\ current_env_data' = g.current_env_data
                    /\ water_level_buffer' = g.water_level_buffer
                    /\ buffer_index' = g.buffer_index
                    /\ inference_results' = g.inference_results
                    /\ last_env_time' = g.last_env_time
                    /\ last_sensor_time' = g.last_sensor_time
                    /\ last_camera_time' = g.last_camera_time
                    /\ obs' = g.obs
                    /\ timing' =
                          [env |-> Stamp(timing.env, Fired(g.obs, "env"), now,
                                         last_env_time, obs.start),
                           sensor |-> Stamp(timing.sensor, Fired(g.obs, "sensor"), now,
                                            last_sensor_time, obs.start),
                           camera |-> Stamp(timing.camera, Fired(g.obs, "camera"), now,
                                            last_camera_time, obs.start)]
                    /\ millis' = u32_add(now, duration)
                    /\ nticks' = nticks + 1
                    /\ nslow' = nslow + (IF duration > LOOP_DELAY THEN 1 ELSE 0)
    /\ UNCHANGED <<recorded, signal, fuse_in, scan>>

\* One whole call of loop(), lines 515-561.
Loop(E) == LoopFrom(E, 517)

----------------------------------------------------------------------------
(* What the collaborators may return.                                      *)

Failed == [err |-> TRUE, classification |-> << >>]
Classified(c) == [err |-> FALSE, classification |-> c]
Entry(l, v) == [label |-> l, value |-> v]

VisualResults ==
    {Failed,
     Classified(<<Entry("blockage", FP), Entry("clear", 0)>>),
     Classified(<<Entry("blockage", 0), Entry("clear", FP)>>)}
SensorResults ==
    {Failed,
     Classified(<<Entry("normal", 8 * (FP \div 10)), Entry("elevated", FP \div 10),
                  Entry("critical", FP \div 10)>>),
     Classified(<<Entry("normal", FP \div 10), Entry("elevated", 8 * (FP \div 10)),
                  Entry("critical", FP \div 10)>>),
     Classified(<<Entry("normal", FP \div 10), Entry("elevated", FP \div 10),
                  Entry("critical", 8 * (FP \div 10))>>)}
EnvironmentalResults ==
    {Failed,
     Classified(<<Entry("low_risk", 0), Entry("high_risk", FP)>>),
     Classified(<<Entry("low_risk", FP), Entry("high_risk", 0)>>)}

DhtReads == {<<25 * FP, 50 * FP>>, <<NaN, 50 * FP>>, <<50 * FP, 120 * FP>>}
BmpReads == {101300 * FP, NaN, 110000 * FP}
RainReads == {0, 4095}

MaxTicks == 52
MaxSchedTicks == 1200
MaxSlowTicks == 1
SlowTick == LOOP_DELAY + PULSE_TIMEOUT \div 1000

\* the data-rich environment: every classifier outcome, echo timeouts, WiFi
\* up or down, status and alert queries; boot with or without WiFi
DataEnv ==
    [requests |-> {"none", "status", "alerts"},
     dht |-> DhtReads, bmp |-> BmpReads, rain |-> RainReads,
     echo |-> {0, NominalEcho},
     visual |-> VisualResults, sensor |-> SensorResults,
     environmental |-> EnvironmentalResults,
     wifi |-> BOOLEAN,
     durations |-> {LOOP_DELAY},
     max_ticks |-> MaxTicks, max_slow |-> 0]

\* the long-running environment: two minutes of ticks, some of them slow,
\* every environmental read valid, failed or out of range
SchedEnv ==
    [requests |-> {"none"},
     dht |-> DhtReads, bmp |-> BmpReads, rain |-> RainReads,
     echo |-> {NominalEcho},
     visual |-> {Classified(<<Entry("blockage", 0), Entry("clear", FP)>>)},
     sensor |-> {Classified(<<Entry("normal", FP), Entry("elevated", 0),
                              Entry("critical", 0)>>)},
     environmental |-> {Classified(<<Entry("low_risk", FP), Entry("high_risk", 0)>>)},
     wifi |-> {TRUE},
     durations |-> {LOOP_DELAY, SlowTick},
     max_ticks |-> MaxSchedTicks, max_slow |-> MaxSlowTicks]

WifiAttempts == {0, 20}

Init ==
    /\ InitGlobals
    /\ InitObservers
    /\ \E attempts \in WifiAttempts : millis = setup(attempts)

Tick == Loop(DataEnv)
Next == Tick
Spec == Init /\ [][Next]_vars

SchedTick == Loop(SchedEnv)
NextSched == SchedTick
SpecSched == Init /\ [][NextSched]_vars

\* The clock wrap.  After 2^32 ms (49.7 days) millis() starts again at 0.  The
\* state below is the one the device is in 7296 ms before that, at the start of
\* the tick at 4294960000 ms, when it booted without WiFi, every tick took
\* delay(100) and every input was nominal: ranging last ran 1000 ms earlier,
\* the inference cycle 5000 ms earlier, environmental sampling 40000 ms earlier
\* (at 4294920000, a multiple of 60000); 4294959 samples have been stored.
MaxWrapTicks == 700

WrapEnv ==
    [requests |-> {"none"},
     dht |-> {<<25 * FP, 50 * FP>>}, bmp |-> {101300 * FP}, rain |-> {0},
     echo |-> {NominalEcho},
     visual |-> {Classified(<<Entry("blockage", 0), Entry("clear", FP)>>)},
     sensor |-> {Classified(<<Entry("normal", FP), Entry("elevated", 0),
                              Entry("critical", 0)>>)},
     environmental |-> {Classified(<<Entry("low_risk", FP), Entry("high_risk", 0)>>)},
     wifi |-> {TRUE},
     durations |-> {LOOP_DELAY, SlowTick},
     max_ticks |-> MaxWrapTicks, max_slow |-> MaxSlowTicks]

InitNearWrap ==
    /\ millis = u32_sub(u32(0), u32(7296))
    /\ last_sensor_time = u32_sub(u32(0), u32(7296 + SENSOR_INTERVAL))
    /\ last_camera_time = u32_sub(u32(0), u32(7296 + CAMERA_INTERVAL))
    /\ last_env_time = u32_sub(u32(0), u32(7296 + 40000))
    /\ water_level_buffer = [i \in 0..(WINDOW - 1) |-> read_ultrasonic(NominalEcho)]
    /\ buffer_index = 4294959 % WINDOW
    /\ current_env_data =
          [read_rain_sensor(
               read_bmp280(
                   read_dht22([temperature |-> 0, humidity |-> 0, pressure |-> 0,
                               rainfall |-> 0, water_level |-> 0], 25 * FP, 50 * FP),
                   101300 * FP),
               0)
           EXCEPT !.water_level = read_ultrasonic(NominalEcho)]
    /\ inference_results =
          fuse_and_alert([blockage_score |-> 0, water_level_class |-> 0,
                          flood_risk |-> 0, alert_score |-> 0,
                          alert_level |-> "LOW", alert_message |-> ""])
    /\ response = NoResponse
    /\ obs = [NoObs EXCEPT !.start = u32_sub(u32(0), u32(7296 + LOOP_DELAY))]
    /\ timing = [env |-> [n |-> 2, gap |-> ENV_INTERVAL, before |-> LOOP_DELAY],
                 sensor |-> [n |-> 2, gap |-> SENSOR_INTERVAL, before |-> LOOP_DELAY],
                 camera |-> [n |-> 2, gap |-> CAMERA_INTERVAL, before |-> LOOP_DELAY]]
    /\ nticks = 0
    /\ nslow = 0
    /\ recorded = << >>
    /\ signal = NoSignal
    /\ fuse_in = << >>
    /\ scan = << >>
    /\ pc = "serve"

InitWrap == Init \/ InitNearWrap
WrapTick == Loop(WrapEnv)
NextWrap == WrapTick
SpecWrap == InitWrap /\ [][NextWrap]_vars

\* loop() in two steps: server.handleClient() (line 517), then the rest of
\* the call (lines 519-560).  A query is serviced only in the first step.
MaxServeTicks == 12

ServeEnv == [DataEnv EXCEPT !.max_ticks = MaxServeTicks]

Serve ==
    /\ pc = "serve"
    /\ nticks < ServeEnv.max_ticks
    /\ \E req \in ServeEnv.requests :
          \E g \in {handleClient(Globals, req, millis)} :
              /\ response' = g.response
              /\ current_env_data' = g.current_env_data
              /\ water_level_buffer' = g.water_level_buffer
              /\ buffer_index' = g.buffer_index
              /\ inference_results' = g.inference_results
              /\ last_env_time' = g.last_env_time
              /\ last_sensor_time' = g.last_sensor_time
              /\ last_camera_time' = g.last_camera_time
    /\ pc' = "work"
    /\ UNCHANGED <<millis, obs, timing, nticks, nslow, recorded, signal, fuse_in,
                   scan>>

Work == LoopFrom(ServeEnv, 519)

NextServe == Serve \/ Work
SpecServe == Init /\ [][NextServe]_vars

\* Scan specification: run_sensor_inference (line 546) applied to every
\* result the temporal model may return: a failure, or one entry per label of
\* the model, in any order, with scores 0.1, 0.2 or 0.6; the model's labels
\* are the three water-level classes, alone or with a fourth label.
ScanLabels == {"normal", "elevated", "critical", "uncertain"}
ScanEntries == {Entry(l, k * (FP \div 10)) : l \in ScanLabels, k \in {1, 2, 6}}
ScanResults ==
    {Failed} \cup
    {Classified(c) : c \in
        {q \in [1..3 -> ScanEntries] \cup [1..4 -> ScanEntries] :
            /\ \A i, j \in DOMAIN q : i # j => q[i].label # q[j].label
            /\ \A l \in {"normal", "elevated", "critical"} :
                  \E i \in DOMAIN q : q[i].label = l}}

InitScan ==
    /\ InitGlobals
    /\ InitObservers
    /\ millis = setup(0)

Classify ==
    /\ \E result \in ScanResults :
          /\ scan' = << result >>
          /\ inference_results' =
                [inference_results EXCEPT !.water_level_class = run_sensor_inference(result)]
    /\ UNCHANGED <<millis, last_camera_time, last_sensor_time, last_env_time,
                   water_level_buffer, buffer_index, current_env_data,
                   response, obs, timing, nticks, nslow, recorded, signal, fuse_in, pc>>

NextScan == Classify
SpecScan == InitScan /\ [][NextScan]_vars

----------------------------------------------------------------------------
(* Scheduler claims, under SpecSched.                                      *)

Activities == {"env", "sensor", "camera"}
Period(a) ==
    IF a = "env" THEN ENV_INTERVAL
    ELSE IF a = "sensor" THEN SENSOR_INTERVAL ELSE CAMERA_INTERVAL
Rank(a) == IF a = "env" THEN 1 ELSE IF a = "sensor" THEN 2 ELSE 3

\* C3 (as amended): between two consecutive firings of an activity at least
\* its period passes, and less than its period plus the length of the loop tick
\* before the second firing: the activity fires in the first tick that starts
\* once the period has elapsed, which may be later than the period.
C3_FiresAtFirstTickAfterPeriod ==
    \A a \in Activities :
        timing[a].n >= 2 =>
            /\ timing[a].gap >= Period(a)
            /\ timing[a].gap < Period(a) + timing[a].before

\* C3 witness: the environmental sampling has fired twice, more than its period
\* apart, and so have the other two activities
C3_Witness ==
    /\ timing.env.n >= 2 /\ timing.env.gap > ENV_INTERVAL
    /\ timing.sensor.n >= 2
    /\ timing.camera.n >= 2

\* C3 (as claimed): the time between two consecutive firings of an activity
\* does not exceed its period
C3_GapWithinPeriod ==
    \A a \in Activities : timing[a].n >= 2 => timing[a].gap <= Period(a)

\* C12: an activity never fires early.  The clock value at a firing minus the
\* clock value at the activity's previous firing, taken modulo 2^32, is at
\* least the activity's period, also when the clock wrapped between the two;
\* the clock value at the first firing since boot is at least the period.
C12_NeverEarly ==
    \A a \in Activities : timing[a].n >= 1 => timing[a].gap >= Period(a)

\* C12 witness: ranging has just fired for the first time after the wrap (the
\* firing before it was before the wrap: its stamp plus the gap exceeds 2^32)
C12_Witness ==
    /\ nticks > 0
    /\ Fired(obs, "sensor")
    /\ last_sensor_time[1] = 0
    /\ timing.sensor.gap > u32_val(last_sensor_time)
    /\ timing.sensor.n >= 2

LastFired(a) ==
    IF a = "env" THEN last_env_time
    ELSE IF a = "sensor" THEN last_sensor_time ELSE last_camera_time

\* C17: an activity whose period has elapsed at the start of a tick (clock
\* minus last-fired stamp >= period) fires in that tick and its stamp becomes
\* the tick's start time, whatever the other two do; an activity whose period
\* has not elapsed does not fire and keeps its stamp.
C17_DueFiresNotDueKeepsStamp ==
    [][ nticks' = nticks + 1 =>
          \A a \in Activities :
              IF u32_val(millis) - u32_val(LastFired(a)) >= Period(a)
              THEN Fired(obs', a) /\ LastFired(a)' = millis
              ELSE ~Fired(obs', a) /\ LastFired(a)' = LastFired(a) ]_vars

\* C17 witness: a tick in which environmental sampling and ranging were due
\* and fired while the inference cycle was not due and kept its stamp
C17_Witness ==
    /\ obs.fired = <<"env", "sensor">>
    /\ last_env_time = obs.start
    /\ last_sensor_time = obs.start
    /\ last_camera_time # obs.start
    /\ timing.camera.n >= 2

\* C4: the activities of one tick fire in the order environmental, ranging,
\* inference; when ranging and inference fire in the same tick, the window the
\* temporal model reads ends with that tick's sample and is the window as the
\* tick leaves it, and the water-level feature is that tick's sample.
C4_FixedOrderFreshSample ==
    /\ \A i, j \in 1..Len(obs.fired) : i < j => Rank(obs.fired[i]) < Rank(obs.fired[j])
    /\ (Fired(obs, "sensor") /\ Fired(obs, "camera")) =>
          /\ obs.window[WINDOW] = obs.sample[1].water_level \div 100
          /\ obs.window = [i \in 1..WINDOW |->
                              water_level_buffer[(buffer_index + i - 1) % WINDOW] \div 100]
          /\ obs.features[5] = obs.sample[1].water_level \div 100
          /\ current_env_data.water_level = obs.sample[1].water_level

\* C4 witness: all three activities fired in one tick
C4_Witness == obs.fired = <<"env", "sensor", "camera">>

\* C7 (as claimed): a read that is invalid (NaN from the DHT22 or the BMP280
\* driver, an ultrasonic echo timeout) leaves the stored field, and the
\* rolling window, as they were.
C7_InvalidReadsRetainPrior ==
    [][ /\ Fired(obs', "env") =>
              /\ (isnan(obs'.reads[1].temp) \/ isnan(obs'.reads[1].humidity))
                    => /\ current_env_data'.temperature = current_env_data.temperature
                       /\ current_env_data'.humidity = current_env_data.humidity
              /\ isnan(obs'.reads[1].pascal)
                    => current_env_data'.pressure = current_env_data.pressure
        /\ (Fired(obs', "sensor") /\ obs'.sample[1].duration = 0) =>
              /\ current_env_data'.water_level = current_env_data.water_level
              /\ water_level_buffer' = water_level_buffer
              /\ buffer_index' = buffer_index ]_vars

----------------------------------------------------------------------------
(* Query claims, under SpecServe.                                          *)

AlertsServed == pc = "work" /\ DOMAIN response = {"alert_level", "alert_message", "alert_score"}
StatusServed == pc = "work" /\ "uptime_ms" \in DOMAIN response

\* C13: servicing a status query or an alert query changes none of the
\* environmental reading, the rolling window, its cursor, the inference result
\* and the three last-fired stamps.
C13_QueriesOnlyRead ==
    [][ (pc = "serve" /\ (AlertsServed' \/ StatusServed')) =>
            UNCHANGED <<current_env_data, water_level_buffer, buffer_index,
                        inference_results, last_camera_time, last_sensor_time,
                        last_env_time>> ]_vars

\* C13 witness: an alert query has just been serviced after a cycle that ended
\* HIGH, and the stored result is still that of the cycle
C13_Witness ==
    /\ AlertsServed
    /\ response.alert_level = "HIGH"
    /\ inference_results.alert_level = "HIGH"
    /\ inference_results.alert_message = MSG_HIGH

\* the four tier templates: a level and the message fixed for it
Templates ==
    {<<"HIGH", MSG_HIGH>>, <<"MEDIUM", MSG_MEDIUM>>, <<"MEDIUM", MSG_FLOOD>>,
     <<"LOW", MSG_LOW>>}

\* C16 (as claimed): whenever an alert query is serviced, from boot on, the
\* stored level and message it finds are one of the four tier templates, and
\* so are the level and message it is answered with.
C16_LevelAndMessageAreTemplate ==
    AlertsServed =>
        /\ <<inference_results.alert_level, inference_results.alert_message>> \in Templates
        /\ <<response.alert_level, response.alert_message>> \in Templates

----------------------------------------------------------------------------
(* Inference-cycle claims, under Spec.                                     *)

\* the value listed for a label, 0 when the label is not listed
ValueOf(classification, l) ==
    IF \E ix \in 1..Len(classification) : classification[ix].label = l
    THEN classification[CHOOSE ix \in 1..Len(classification) :
                            classification[ix].label = l].value
    ELSE 0
\* the class whose label scores highest
BestClass(classification) ==
    CHOOSE c \in Classes :
        \A d \in Classes :
            ValueOf(classification, <<"normal", "elevated", "critical">>[c + 1])
               >= ValueOf(classification, <<"normal", "elevated", "critical">>[d + 1])
Failures(o) ==
    {m \in {"visual", "sensor", "environmental"} : o.results[1][m].err}

\* the classes whose label scores highest among the three class labels
BestClasses(classification) ==
    {c \in Classes :
        \A d \in Classes :
            ValueOf(classification, <<"normal", "elevated", "critical">>[c + 1])
               >= ValueOf(classification, <<"normal", "elevated", "critical">>[d + 1])}

\* C14 (as claimed): after a successful call of the temporal model the class is
\* that of the label scoring highest among normal, elevated and critical,
\* whatever other label the result lists and in whatever order; after a failed
\* call it is 0.
C14_ClassIsBestKnownLabel ==
    scan # << >> =>
        IF scan[1].err THEN inference_results.water_level_class = 0
        ELSE inference_results.water_level_class \in BestClasses(scan[1].classification)

\* C5: a payload is pushed only in a tick whose inference cycle ended with a
\* level other than LOW and found WiFi connected; otherwise nothing is pushed;
\* never more than one payload per cycle; the payload and a later alert query
\* carry the stored inference result.
C5_PushOnlyAlertWithWifi ==
    /\ Len(obs.pushed) <= 1
    /\ obs.pushed # << >> =>
          /\ Fired(obs, "camera")
          /\ inference_results.alert_level # "LOW"
          /\ obs.wifi = << TRUE >>
          /\ obs.pushed[1].alert_level = inference_results.alert_level
          /\ obs.pushed[1].alert_message = inference_results.alert_message
    /\ (Fired(obs, "camera")
        /\ (inference_results.alert_level = "LOW" \/ obs.wifi = << FALSE >>))
          => obs.pushed = << >>
    /\ (Fired(obs, "camera") /\ inference_results.alert_level = "LOW")
          => obs.wifi = << >>
    /\ ("alert_message" \in DOMAIN response /\ ~Fired(obs, "camera"))
          => /\ response.alert_level = inference_results.alert_level
             /\ response.alert_message = inference_results.alert_message
             /\ response.alert_score = inference_results.alert_score

\* C5 witness: a cycle that ended MEDIUM with WiFi connected pushed one payload
C5_Witness ==
    /\ Fired(obs, "camera")
    /\ Len(obs.pushed) = 1
    /\ obs.pushed[1].alert_level = "MEDIUM"
    /\ obs.wifi = << TRUE >>

\* C6: in a cycle where exactly one classifier call fails, the failed model's
\* output is its default, the other two are what their results list, the
\* fused score and the level are those of these three values, and loop() can
\* be called again.
C6_OneFailureDegradesToDefault ==
    (Fired(obs, "camera") /\ Cardinality(Failures(obs)) = 1) =>
        LET res == obs.results[1]
            b == IF res.visual.err THEN 0
                 ELSE ValueOf(res.visual.classification, "blockage")
            c == IF res.sensor.err THEN 0 ELSE BestClass(res.sensor.classification)
            f == IF res.environmental.err THEN 0
                 ELSE ValueOf(res.environmental.classification, "high_risk")
        IN  /\ inference_results.blockage_score = b
            /\ inference_results.water_level_class = c
            /\ inference_results.flood_risk = f
            /\ inference_results.alert_score * 10 = Weighted(b, c, f)
            /\ inference_results.alert_level = LevelOfTier(Tier(b, c, f))
            /\ nticks < MaxTicks => ENABLED Tick

\* C6 witness: the visual call failed, the other two reported the critical
\* class and a high flood risk, and a later tick ran
C6_Witness ==
    /\ Fired(obs, "camera")
    /\ Failures(obs) = {"visual"}
    /\ inference_results.water_level_class = 2
    /\ inference_results.flood_risk = FP
    /\ inference_results.alert_level = "MEDIUM"

\* C19: at the start of every loop tick, where a query can be serviced, the
\* stored alert_score is the fusion of the stored blockage_score,
\* water_level_class and flood_risk and the stored level is the decision for
\* them; an alert query answered in a tick reports that score and level.
C19_StoredResultConsistent ==
    /\ 10 * inference_results.alert_score =
          Weighted(inference_results.blockage_score, inference_results.water_level_class,
                   inference_results.flood_risk)
    /\ inference_results.alert_level =
          LevelOfTier(Tier(inference_results.blockage_score,
                           inference_results.water_level_class,
                           inference_results.flood_risk))
    /\ ("alert_score" \in DOMAIN response /\ ~Fired(obs, "camera")) =>
          /\ response.alert_score = inference_results.alert_score
          /\ response.alert_level = inference_results.alert_level

\* C19 witness: an alert query answered in a tick after a cycle that ended HIGH
C19_Witness ==
    /\ "alert_score" \in DOMAIN response
    /\ ~Fired(obs, "camera")
    /\ response.alert_level = "HIGH"
    /\ response.alert_score = FP
    /\ inference_results.blockage_score = FP
    /\ inference_results.water_level_class = 2
    /\ inference_results.flood_risk = FP

\* C8 (as claimed): each of the five features handed to the environmental
\* model lies in [0,1]
C8_FeaturesInUnitRange ==
    Fired(obs, "camera") =>
        \A i \in 1..5 : obs.features[i] >= 0 /\ obs.features[i] <= FP

====
